---- MODULE Spec2Model ----
(***************************************************************************)
(* Model of src/main.js of ikuuu-auto-checkin.  The file holds three       *)
(* scripts, each with its own entry point:                                 *)
(*   "single"     lines   1-186  one account, Telegram notification        *)
(*   "traffic"    lines 188-385  Promise.allSettled over all accounts,     *)
(*                               traffic page scraping, no notification    *)
(*   "sequential" lines 387-700  accounts one after the other, one         *)
(*                               aggregated Telegram notification          *)
(*                                                                         *)
(* Strings.  A text (a message, a log line) is a sequence of tokens; the   *)
(* Chinese words of the source are written in pinyin.  A raw Set-Cookie    *)
(* value and a Cookie header are sequences of one-character strings, so    *)
(* that the regular expression of formatCookie is computed on characters.  *)
(***************************************************************************)
EXTENDS Integers, Sequences, FiniteSets, TLC

\* Largest number of account objects in a configured array.
MaxAccounts == 2

\* Largest number of raw Set-Cookie strings handed to formatCookie on its own.
MaxCookies == 3

Variants == {"single", "traffic", "sequential"}

-----------------------------------------------------------------------------
(* Character strings: raw Set-Cookie values and the Cookie header          *)

WS == {" "}

RECURSIVE TrimLeft(_)
TrimLeft(s) ==
  IF s # <<>> /\ Head(s) \in WS THEN TrimLeft(Tail(s)) ELSE s

RECURSIVE TrimRight(_)
TrimRight(s) ==
  IF s # <<>> /\ s[Len(s)] \in WS THEN TrimRight(SubSeq(s, 1, Len(s) - 1)) ELSE s

\* String.prototype.trim
Trim(s) == TrimRight(TrimLeft(s))

\* Index of the first occurrence of ch in s at or after from, 0 when there is none.
RECURSIVE IndexFrom(_, _, _)
IndexFrom(s, ch, from) ==
  IF from > Len(s) THEN 0
  ELSE IF s[from] = ch THEN from
  ELSE IndexFrom(s, ch, from + 1)

\* cookieString.match(/^\s*([^=]+)=([^;]*)/): the name needs one character or
\* more before the first "=", which backtracking of \s* grants even when
\* they are all white space; the value runs to the first ";" after it.
cookieMatch(s) ==
  LET p == IndexFrom(s, "=", 1)
      e == IndexFrom(s, ";", p + 1)
      stop == IF e = 0 THEN Len(s) ELSE e - 1
  IN IF p >= 2
     THEN [matched |-> TRUE,
           name |-> Trim(SubSeq(s, 1, p - 1)),
           value |-> Trim(SubSeq(s, p + 1, stop))]
     ELSE [matched |-> FALSE, name |-> <<>>, value |-> <<>>]

\* Map.prototype.set on an insertion-ordered list of pairs.
MapSet(m, k, v) ==
  IF \E i \in 1..Len(m) : m[i].k = k
  THEN [i \in 1..Len(m) |-> IF m[i].k = k THEN [k |-> k, v |-> v] ELSE m[i]]
  ELSE Append(m, [k |-> k, v |-> v])

RECURSIVE cookiePairs(_, _)
cookiePairs(rawCookieArray, m) ==
  IF rawCookieArray = <<>> THEN m
  ELSE LET c == cookieMatch(Head(rawCookieArray))
       IN cookiePairs(Tail(rawCookieArray),
                      IF c.matched THEN MapSet(m, c.name, c.value) ELSE m)

\* Array.prototype.join on character strings
RECURSIVE JoinChars(_, _)
JoinChars(parts, sep) ==
  IF parts = <<>> THEN <<>>
  ELSE IF Len(parts) = 1 THEN parts[1]
  ELSE parts[1] \o sep \o JoinChars(Tail(parts), sep)

formatCookie(rawCookieArray) ==
  LET m == cookiePairs(rawCookieArray, <<>>)
  IN JoinChars([i \in 1..Len(m) |-> m[i].k \o <<"=">> \o m[i].v], <<";", " ">>)

\* Headers.get("set-cookie"): every Set-Cookie value joined by ", ", null
\* (here the empty string) when there is none.
headersGet(setCookie) == JoinChars(setCookie, <<",", " ">>)

\* The fallback without its test of the single value.
getSetCookieArrayNoCheck(hasGetSetCookie, setCookie) ==
  IF hasGetSetCookie /\ Len(setCookie) > 0 THEN setCookie
  ELSE <<headersGet(setCookie)>>

\* getSetCookieArray(headers), scripts "single" and "sequential".
\* hasGetSetCookie: the runtime's Headers has the getSetCookie method.
getSetCookieArray(hasGetSetCookie, setCookie) ==
  IF hasGetSetCookie /\ Len(setCookie) > 0 THEN setCookie
  ELSE LET single == headersGet(setCookie)
       IN IF single # <<>> THEN <<single>> ELSE <<>>

-----------------------------------------------------------------------------
(* Texts: sequences of tokens                                              *)

\* /(shibai|cuowu|yichang|error|fail)/i, the five alternatives
\* (shi bai = failed, cuo wu = wrong, yi chang = exception)
KwFail == {"shibai", "cuowu", "yichang", "error", "fail"}
\* /(yi qiandao|yijing qiandao|sihu yijing qiandao|chongfu qiandao)/
KwAlready == {"yiqiandao", "yijingqiandao", "sihuyijingqiandao", "chongfuqiandao"}
\* /(chenggong|success)/i
KwSuccess == {"chenggong", "success"}

\* regexp.test(text)
Has(text, kws) == \E i \in 1..Len(text) : text[i] \in kws

classifyStatus(text) ==
  IF Has(text, KwFail) THEN "fail"
  ELSE IF Has(text, KwAlready) THEN "already"
  ELSE IF Has(text, KwSuccess) THEN "success"
  ELSE "info"

IconOk == "[v]"
IconWarn == "[!]"
IconFail == "[x]"
IconInfo == "[i]"

statusEmoji(kind) ==
  IF kind = "success" THEN IconOk
  ELSE IF kind = "already" THEN IconWarn
  ELSE IF kind = "fail" THEN IconFail
  ELSE IconInfo

prettyLoginText(raw) ==
  LET kind == classifyStatus(raw)
      emoji == statusEmoji(kind)
  IN IF kind = "success" THEN <<emoji, "denglu", "chenggong">>
     ELSE IF kind = "fail" THEN <<emoji, "denglu", "shibai">>
     ELSE <<emoji>> \o (IF raw # <<>> THEN raw ELSE <<"denglu xinxi">>)

prettyCheckinText(raw) ==
  LET kind == classifyStatus(raw)
      emoji == statusEmoji(kind)
  IN IF kind = "success" THEN <<emoji, "qiandao", "chenggong">>
     ELSE IF kind = "already" THEN <<emoji, "yiqiandao", "(wuxu chongfu)">>
     ELSE <<emoji>> \o (IF raw # <<>> THEN raw ELSE <<"qiandao jieguo weizhi">>)

\* The texts the sequential script hands to buildAccountBlock.
TxtNoSessionCookie == <<"denglu", "shibai", "(wei huoqu dao huihua Cookie)">>
TxtCheckAccount == <<"qing jiancha zhanghao mima / zhandian / yanzhengma">>
TxtLoginOk == <<"denglu", "chenggong">>
TxtException == <<"yichang">>
TxtRequestSent == <<"qiandao qingqiu yi fasong">>
TxtRequestFailed == <<"qiandao qingqiu", "shibai">>

\* buildAccountBlock(name, {loginRaw, checkinRaw, extraRaw}); an undefined
\* loginRaw or checkinRaw is p.hasLogin or p.hasCheckin being FALSE.
buildAccountBlock(name, p) ==
  <<<<"[user]", name>>>>
  \o (IF p.hasLogin THEN <<<<"[lock]">> \o prettyLoginText(p.loginRaw)>> ELSE <<>>)
  \o (IF p.hasCheckin THEN <<<<"[target]">> \o prettyCheckinText(p.checkinRaw)>> ELSE <<>>)
  \o [k \in 1..Len(p.extraRaw) |->
        <<"[receipt]", statusEmoji(classifyStatus(p.extraRaw[k]))>> \o p.extraRaw[k]]

\* while (summaryLines.length && last === "") summaryLines.pop()
RECURSIVE popBlank(_)
popBlank(lines) ==
  IF lines # <<>> /\ lines[Len(lines)] = <<>>
  THEN popBlank(SubSeq(lines, 1, Len(lines) - 1))
  ELSE lines

\* The amounts /[0-9.]+\s*(?:B|KB|MB|GB|TB)/ matches among the tokens used.
Amounts == {"500MB", "1 GB"}

\* parseEarnedFromMsg(msg): the amount after "huode(le)" (obtained), else
\* the amount after "+", else "".
RECURSIVE amountAfter(_, _)
amountAfter(msg, marks) ==
  IF Len(msg) < 2 THEN <<>>
  ELSE IF msg[1] \in marks /\ msg[2] \in Amounts THEN <<msg[2]>>
  ELSE amountAfter(Tail(msg), marks)

parseEarnedFromMsg(msg) ==
  LET a == amountAfter(msg, {"huodele", "huode"})
  IN IF a # <<>> THEN a ELSE amountAfter(msg, {"+"})

\* A user page is the sequence of its "label: value" places; value "" is a
\* label not followed by any text the capture ([^<\n]+) can take.
\* html.match(p): the first place where the pattern matches.
RECURSIVE matchLabel(_, _)
matchLabel(html, label) ==
  IF html = <<>> THEN ""
  ELSE IF html[1].label = label /\ html[1].value # "" THEN html[1].value
  ELSE matchLabel(Tail(html), label)

RECURSIVE pickFirst(_, _)
pickFirst(html, patterns) ==
  IF patterns = <<>> THEN ""
  ELSE LET m == matchLabel(html, Head(patterns))
       IN IF m # "" THEN m ELSE pickFirst(html, Tail(patterns))

parseTraffic(html) ==
  [remaining |-> pickFirst(html, <<"shengyu liuliang", "keyong liuliang", "Remaining Traffic">>),
   usedTotal |-> pickFirst(html, <<"leiji yiyong", "yiyong liuliang", "zonggong yiyong", "Used Traffic">>),
   usedToday |-> pickFirst(html, <<"jinri yiyong", "jinri shiyong", "Today Used">>)]

TxtFetchFailed == "huoqu shibai"

\* A report that shows a field that was not found as it is, empty.
trafficReportNoPlaceholder(msg, html) ==
  LET e == parseEarnedFromMsg(msg)
      earned == IF e # <<>> THEN e ELSE <<"0">>
      t == parseTraffic(html)
  IN <<"lingqu:">> \o earned
     \o <<"|", "leiji yiyong:", t.usedTotal>>
     \o (IF t.usedToday # "" THEN <<"|", "jinri yiyong:", t.usedToday>> ELSE <<>>)
     \o <<"|", "shengyu:", t.remaining>>

\* The report of processSingleAccount: parts.join("|")
trafficReport(msg, html) ==
  LET e == parseEarnedFromMsg(msg)
      earned == IF e # <<>> THEN e ELSE <<"0">>
      t == parseTraffic(html)
  IN <<"lingqu:">> \o earned
     \o <<"|", "leiji yiyong:", IF t.usedTotal # "" THEN t.usedTotal ELSE TxtFetchFailed>>
     \o (IF t.usedToday # "" THEN <<"|", "jinri yiyong:", t.usedToday>> ELSE <<>>)
     \o <<"|", "shengyu:", IF t.remaining # "" THEN t.remaining ELSE TxtFetchFailed>>

-----------------------------------------------------------------------------
(* What the network may answer                                             *)

Statuses == {"200", "500"}
\* Response.ok: the status is in the range 200-299
RespOk(r) == r.status = "200"

NoBody == [kind |-> "empty", hasRet |-> FALSE, ret |-> 0, hasMsg |-> FALSE, msg |-> <<>>]
HtmlBody == [kind |-> "html", hasRet |-> FALSE, ret |-> 0, hasMsg |-> FALSE, msg |-> <<>>]
Json(hasRet, ret, hasMsg, msg) ==
  [kind |-> "json", hasRet |-> hasRet, ret |-> ret, hasMsg |-> hasMsg, msg |-> msg]

MsgLoginOk == <<"denglu", "chenggong">>
MsgBadPassword == <<"youxiang huo mima", "cuowu">>
MsgEarned == <<"ni", "huodele", "500MB", "liuliang">>
MsgAlready == <<"nin", "sihuyijingqiandao", "guole">>
MsgCheckinFailed == <<"qiandao", "shibai">>

LoginBodies ==
  {NoBody, HtmlBody,
   Json(TRUE, 1, TRUE, MsgLoginOk), Json(TRUE, 0, TRUE, MsgBadPassword),
   Json(TRUE, 0, FALSE, <<>>), Json(FALSE, 0, FALSE, <<>>)}

CheckinMsgs == {<<>>, MsgEarned, MsgAlready, MsgCheckinFailed}

CheckinBodies ==
  {NoBody, HtmlBody}
  \cup {Json(TRUE, ret, FALSE, <<>>) : ret \in {0, 1}}
  \cup {Json(TRUE, ret, TRUE, m) : ret \in {0, 1}, m \in CheckinMsgs}

RawSidA == <<"s", "=", "A", ";", " ", "P">>
RawSidB == <<" ", "s", " ", "=", "B">>
RawUid == <<"u", "=", "7">>
RawJunk == <<"j", "u", "n", "k">>

\* The Set-Cookie values of a login response.
SetCookieLists == {<<>>, <<RawSidA>>, <<RawSidB, RawUid>>, <<RawJunk>>}

Rejected == [net |-> "reject", status |-> "500", body |-> NoBody, setCookie |-> <<>>]

LoginResponses ==
  {Rejected} \cup
  {[net |-> "ok", status |-> st, body |-> b, setCookie |-> c] :
     st \in Statuses, b \in LoginBodies, c \in SetCookieLists}

CheckinResponses ==
  {Rejected} \cup
  {[net |-> "ok", status |-> st, body |-> b, setCookie |-> <<>>] :
     st \in Statuses, b \in CheckinBodies}

PageNone == <<>>
PageFull ==
  <<[label |-> "shengyu liuliang", value |-> "10GB"],
    [label |-> "leiji yiyong", value |-> "5GB"],
    [label |-> "jinri yiyong", value |-> "1GB"]>>
PagePartial ==
  <<[label |-> "Remaining Traffic", value |-> ""],
    [label |-> "Used Traffic", value |-> "5GB"]>>
Pages == {PageNone, PageFull, PagePartial}

UserRejected == [net |-> "reject", status |-> "500", html |-> PageNone]
UserResponses ==
  {UserRejected} \cup
  {[net |-> "ok", status |-> st, html |-> h] : st \in Statuses, h \in Pages}

\* Telegram answers with a JSON body that carries a boolean "ok".
TgRejected == [net |-> "reject", status |-> "500", bodyOk |-> FALSE]
TgResponses ==
  {TgRejected} \cup
  {[net |-> "ok", status |-> st, bodyOk |-> b] : st \in Statuses, b \in BOOLEAN}

\* The message of the TypeError fetch rejects with.
ErrFetch == <<"fetch failed">>

\* JSON.stringify(json)
stringify(b) ==
  <<"{">> \o (IF b.hasRet THEN <<"ret:", ToString(b.ret)>> ELSE <<>>)
  \o (IF b.hasMsg THEN <<"msg:">> \o b.msg ELSE <<>>) \o <<"}">>

-----------------------------------------------------------------------------
(* The steps of one account, as functions of the response received.        *)
(* A step yields [thrown, err, ok, cookie, msg]: thrown with the message   *)
(* of the Error, or returned with the value.                               *)

Throw(err) == [thrown |-> TRUE, err |-> err, ok |-> FALSE, cookie |-> <<>>, msg |-> <<>>]
Return(ok, cookie, msg) ==
  [thrown |-> FALSE, err |-> <<>>, ok |-> ok, cookie |-> cookie, msg |-> msg]

\* logIn of the script "single"
logInSingle(r, hasGSC) ==
  IF r.net = "reject" THEN Throw(ErrFetch)
  ELSE IF ~RespOk(r) THEN Throw(<<"denglu qingqiu shibai - HTTP", r.status>>)
  ELSE IF r.body.kind # "json" \/ ~r.body.hasRet
       THEN Throw(<<"denglu xiangying jiexi shibai (fei yuqi JSON)">>)
  ELSE IF r.body.ret # 1
       THEN Throw(<<"denglu", "shibai", ":">>
                  \o (IF r.body.msg # <<>> THEN r.body.msg ELSE <<"unknown error">>))
  ELSE LET rawCookies == getSetCookieArray(hasGSC, r.setCookie)
       IN IF rawCookies = <<>> THEN Throw(<<"huoqu Cookie shibai (Set-Cookie wei kong)">>)
          ELSE Return(TRUE, formatCookie(rawCookies),
                      IF r.body.msg # <<>> THEN r.body.msg ELSE <<"login ok">>)

\* A checkIn that takes a body whose ret is not 1 for a failure.
checkInSingleChecksRet(r) ==
  IF r.net = "reject" THEN Throw(ErrFetch)
  ELSE IF ~RespOk(r) THEN Throw(<<"qiandao qingqiu shibai - HTTP", r.status>>)
  ELSE IF r.body.kind # "json"
       THEN Throw(<<"qiandao xiangying jiexi shibai (fei yuqi JSON)">>)
  ELSE IF r.body.ret # 1 THEN Throw(<<"qiandao", "shibai", ":">> \o r.body.msg)
  ELSE Return(TRUE, <<>>, IF r.body.msg # <<>> THEN r.body.msg ELSE stringify(r.body))

\* checkIn of the script "single"
checkInSingle(r) ==
  IF r.net = "reject" THEN Throw(ErrFetch)
  ELSE IF ~RespOk(r) THEN Throw(<<"qiandao qingqiu shibai - HTTP", r.status>>)
  ELSE IF r.body.kind # "json"
       THEN Throw(<<"qiandao xiangying jiexi shibai (fei yuqi JSON)">>)
  ELSE Return(TRUE, <<>>, IF r.body.msg # <<>> THEN r.body.msg ELSE stringify(r.body))

\* sendTelegram / sendTelegramHtml once the request has been answered
sendTelegram(r) ==
  IF r.net = "reject" THEN Throw(ErrFetch)
  ELSE IF ~RespOk(r)
       THEN Throw(<<"Telegram tongzhi shibai: HTTP", r.status,
                    IF r.bodyOk THEN "{ok:true}" ELSE "{ok:false}">>)
  ELSE Return(TRUE, <<>>, <<>>)

\* logIn of the script "traffic"
logInTraffic(r, hasGSC) ==
  IF r.net = "reject" THEN Throw(ErrFetch)
  ELSE IF ~RespOk(r) THEN Throw(<<"wangluo qingqiu chucuo -", r.status>>)
  ELSE IF r.body.kind # "json" THEN Throw(<<"SyntaxError">>)
  ELSE IF ~(r.body.hasRet /\ r.body.ret = 1)
       THEN Throw(<<"denglu", "shibai", ":">>
                  \o (IF r.body.hasMsg THEN r.body.msg ELSE <<"undefined">>))
  ELSE IF ~hasGSC \/ Len(r.setCookie) = 0 THEN Throw(<<"huoqu Cookie shibai">>)
  ELSE Return(TRUE, formatCookie(r.setCookie), r.body.msg)

\* checkIn of the script "traffic"
checkInTraffic(r) ==
  IF r.net = "reject" THEN Throw(ErrFetch)
  ELSE IF ~RespOk(r) THEN Throw(<<"wangluo qingqiu chucuo -", r.status>>)
  ELSE IF r.body.kind # "json" THEN Throw(<<"SyntaxError">>)
  ELSE Return(TRUE, <<>>, IF r.body.hasMsg THEN r.body.msg ELSE <<>>)

\* getUserHtml; the page is read by the caller from r.html
getUserHtml(r) ==
  IF r.net = "reject" THEN Throw(ErrFetch)
  ELSE IF ~RespOk(r) THEN Throw(<<"huoqu yonghuye shibai -", r.status>>)
  ELSE Return(TRUE, <<>>, <<>>)

\* logIn of the script "sequential": {ok, cookies, text}
logInSeq(r, hasGSC) ==
  IF r.net = "reject" THEN Throw(ErrFetch)
  ELSE LET cookies == formatCookie(getSetCookieArray(hasGSC, r.setCookie))
       IN IF cookies = <<>> THEN Return(FALSE, <<>>, <<>>)
          ELSE Return(TRUE, cookies, <<>>)

\* checkIn of the script "sequential": {ok, json}; msg is json?.msg, the
\* empty text when there is no JSON body or no msg in it.
checkInSeq(r) ==
  IF r.net = "reject" THEN Throw(ErrFetch)
  ELSE Return(RespOk(r), <<>>, IF r.body.kind = "json" THEN r.body.msg ELSE <<>>)

\* const msg = checkinRes?.json?.msg || (checkinRes.ok ? sent : failed)
seqCheckinMsg(checkinRes) ==
  IF checkinRes.msg # <<>> THEN checkinRes.msg
  ELSE IF checkinRes.ok THEN TxtRequestSent ELSE TxtRequestFailed

-----------------------------------------------------------------------------
(* State                                                                   *)

VARIABLES
  variant,          \* which of the three scripts runs
  config,           \* the CONFIG / ACCOUNTS environment variable
  hasGetSetCookie,  \* the runtime's Headers has getSetCookie
  tgConfigured,     \* TELEGRAM_TOKEN and TELEGRAM_TO are both set; the script
                    \* "traffic" has no notifier and never reads them
  ghOutput,         \* GITHUB_OUTPUT as setGitHubOutput found it: "set" or
                    \* "unset", and "unread" until the one call of the run
  mainPc,           \* "init", "accounts", "notify", "exited"
  accounts,         \* the parsed accounts
  pc,               \* per account: "Start", "Login", "CheckIn", "Traffic", "Done", "Failed"
  cookie,           \* per account: the Cookie header its flow holds
  checkinMsg,       \* per account: the message its check-in produced
  results,          \* per account: [status, value], the settled outcome
  blocks,           \* per account: the arguments of its buildAccountBlock call
  summaryLines,     \* the summary: finalMsg of "single", lines of "traffic",
                    \* summaryLines of "sequential"
  output,           \* the values written to GITHUB_OUTPUT under "result"
  failFlag,         \* exitCode of "single", hasError of "traffic"
  exitCode,         \* the exit status, once mainPc = "exited"
  uncaught,         \* an error escaped the main function
  notify,           \* "none", "skipped", "waiting", "returned", "caught"
  sentLogged,       \* the line "Telegram: yi fasong tongzhi" was logged
  tgRequests,       \* the texts posted to Telegram
  tgReply,          \* the answers Telegram gave
  sent,             \* per account: the requests sent, in order
  rawList,          \* formatCookie called on its own: the argument
  merged            \* formatCookie called on its own: [done, value]

env == <<variant, config, hasGetSetCookie, tgConfigured>>
acct == <<pc, cookie, checkinMsg, results, blocks, sent>>
tg == <<notify, sentLogged, tgRequests, tgReply>>
formatter == <<rawList, merged>>
vars == <<env, formatter, ghOutput, mainPc, accounts, acct, summaryLines, output, failFlag, exitCode,
          uncaught, tg>>

\* The configuration: absent, not JSON, one account object, or an array of n
\* account objects.  bad is the place of an account object without email or
\* passwd, 0 when every account object has both; the configurations taken
\* have it in the last place, which is the first place too when n = 1.
Configs ==
  {[kind |-> "absent", n |-> 0, bad |-> 0], [kind |-> "invalid", n |-> 0, bad |-> 0]}
  \cup {[kind |-> "object", n |-> 1, bad |-> b] : b \in 0..1}
  \cup UNION {{[kind |-> "array", n |-> k, bad |-> b] : b \in {0, k}} : k \in 0..MaxAccounts}

\* The k-th account object of the configuration.
Account(k) ==
  [name |-> "acct" \o ToString(k), email |-> "mail" \o ToString(k),
   passwd |-> "pw" \o ToString(k)]

\* The k-th account object as the configuration holds it: the email is
\* undefined (here "") in the account object at config.bad.
configured(k) ==
  IF k = config.bad THEN [Account(k) EXCEPT !.email = ""] ELSE Account(k)

BaseUrl == "https://ikuuu.nl"

Pending == [status |-> "pending", value |-> <<>>]
Fulfilled(value) == [status |-> "fulfilled", value |-> value]
RejectedWith(err) == [status |-> "rejected", value |-> err]

NoBlock ==
  [branch |-> "none", hasLogin |-> FALSE, loginRaw |-> <<>>,
   hasCheckin |-> FALSE, checkinRaw |-> <<>>, extraRaw |-> <<>>]

NotMerged == [done |-> FALSE, value |-> <<>>]

\* The state of a script before its main function has run.
Fresh ==
  /\ ghOutput = "unread"
  /\ mainPc = "init"
  /\ accounts = <<>>
  /\ pc = <<>> /\ cookie = <<>> /\ checkinMsg = <<>> /\ results = <<>>
  /\ blocks = <<>> /\ sent = <<>>
  /\ summaryLines = <<>>
  /\ output = <<>>
  /\ failFlag = FALSE
  /\ exitCode = 0
  /\ uncaught = FALSE
  /\ notify = "none" /\ sentLogged = FALSE /\ tgRequests = <<>> /\ tgReply = <<>>

Init ==
  /\ variant \in Variants
  /\ config \in Configs
  /\ hasGetSetCookie \in BOOLEAN
  /\ tgConfigured \in BOOLEAN
  /\ Fresh
  /\ rawList = <<>> /\ merged = NotMerged

\* The account state right after the main function has the accounts: all
\* flows in `started` have sent their login request.
Begin(n, started) ==
  /\ accounts' = [k \in 1..n |-> configured(k)]
  /\ pc' = [k \in 1..n |-> IF k \in started THEN "Login" ELSE "Start"]
  /\ sent' = [k \in 1..n |-> IF k \in started THEN <<"login">> ELSE <<>>]
  /\ cookie' = [k \in 1..n |-> <<>>]
  /\ checkinMsg' = [k \in 1..n |-> <<>>]
  /\ results' = [k \in 1..n |-> Pending]
  /\ blocks' = [k \in 1..n |-> NoBlock]
  /\ mainPc' = "accounts"

\* An error leaves the main function: the process ends with status 1.
Crash ==
  /\ mainPc' = "exited" /\ exitCode' = 1 /\ uncaught' = TRUE

\* A call that is not made before the notification.
setGitHubOutputSkipped(found, value) == UNCHANGED <<ghOutput, output>>

\* setGitHubOutput of "single" and "sequential", the one read of
\* GITHUB_OUTPUT in a run: nothing is written when it is not set
setGitHubOutput(found, value) ==
  /\ ghOutput' = IF found THEN "set" ELSE "unset"
  /\ output' = IF found THEN Append(output, value) ELSE output

\* setGitHubOutput of "traffic", which has no test of GITHUB_OUTPUT:
\* appendFileSync(undefined, ...) throws a TypeError that nothing catches.
\* The process is left to end with `status` when the value was written.
setGitHubOutputTraffic(found, value, status) ==
  /\ ghOutput' = IF found THEN "set" ELSE "unset"
  /\ IF found
     THEN /\ output' = Append(output, value)
          /\ mainPc' = "exited" /\ exitCode' = status
          /\ UNCHANGED uncaught
     ELSE Crash /\ UNCHANGED output

-----------------------------------------------------------------------------
(* Script "single"                                                         *)

\* main, lines 147-156: parseAccountFromConfig, which looks at the object or
\* at the first element of the array only, then logIn up to its fetch
StartSingle ==
  /\ variant = "single" /\ mainPc = "init"
  /\ IF config.kind \in {"absent", "invalid"} \/ config.n = 0 \/ config.bad = 1
     THEN /\ Crash
          /\ UNCHANGED <<accounts, acct>>
     ELSE /\ Begin(1, {1})
          /\ UNCHANGED <<exitCode, uncaught>>
  /\ UNCHANGED <<env, formatter, ghOutput, summaryLines, output, failFlag, tg>>

\* main, lines 163-183, entered with the outcome of the try block: the result
\* line, setGitHubOutput, sendTelegram up to its fetch, process.exit
finishSingle(res) ==
  LET ok == res.status = "fulfilled"
      line == <<IF ok THEN IconOk ELSE IconFail>> \o res.value
      finalMsg == <<<<"[Ikuuu qiandao]", accounts[1].name>>, line,
                    <<"zhandian:", BaseUrl>>>>
  IN /\ results' = [results EXCEPT ![1] = res]
     /\ pc' = [pc EXCEPT ![1] = IF ok THEN "Done" ELSE "Failed"]
     /\ cookie' = [cookie EXCEPT ![1] = <<>>]
     /\ failFlag' = ~ok
     /\ \E found \in BOOLEAN : setGitHubOutput(found, <<line>>)
     /\ summaryLines' = finalMsg
     /\ IF tgConfigured
        THEN /\ mainPc' = "notify"
             /\ notify' = "waiting"
             /\ tgRequests' = Append(tgRequests, finalMsg)
             /\ UNCHANGED <<exitCode, sentLogged>>
        ELSE /\ mainPc' = "exited"
             /\ notify' = "skipped"
             /\ sentLogged' = TRUE
             /\ exitCode' = IF ok THEN 0 ELSE 1
             /\ UNCHANGED tgRequests
     /\ UNCHANGED <<env, formatter, accounts, blocks, uncaught, tgReply>>

\* The login response arrives: logIn, lines 87-101, and main, lines 156-160
LoginReplySingle(r) ==
  /\ variant = "single" /\ mainPc = "accounts" /\ pc[1] = "Login"
  /\ LET res == logInSingle(r, hasGetSetCookie)
     IN IF res.thrown
        THEN /\ finishSingle(RejectedWith(res.err))
             /\ UNCHANGED <<checkinMsg, sent>>
        ELSE /\ pc' = [pc EXCEPT ![1] = "CheckIn"]
             /\ cookie' = [cookie EXCEPT ![1] = res.cookie]
             /\ sent' = [sent EXCEPT ![1] = Append(@, "checkin")]
             /\ UNCHANGED <<env, formatter, ghOutput, mainPc, accounts, checkinMsg, results, blocks,
                            summaryLines, output, failFlag, exitCode, uncaught, tg>>

\* The check-in response arrives: checkIn, lines 112-118, and main from line 160
CheckinReplySingle(r) ==
  /\ variant = "single" /\ mainPc = "accounts" /\ pc[1] = "CheckIn"
  /\ LET res == checkInSingle(r)
     IN /\ finishSingle(IF res.thrown THEN RejectedWith(res.err) ELSE Fulfilled(res.msg))
        /\ checkinMsg' = [checkinMsg EXCEPT ![1] = res.msg]
        /\ UNCHANGED sent

\* A catch block that also records the failure in exitCode.
notifyCatchSetsFlag(flag, res) == flag \/ res.thrown

\* The catch block of main, lines 178-181: the error is logged and exitCode
\* is left as the try block of the account set it.
notifyCatch(flag, res) == flag

\* Telegram answers: sendTelegram, lines 69-73, and main, lines 177-183
NotifyReplySingle(r) ==
  /\ variant = "single" /\ mainPc = "notify"
  /\ LET res == sendTelegram(r)
     IN /\ notify' = IF res.thrown THEN "caught" ELSE "returned"
        /\ sentLogged' = ~res.thrown
        /\ failFlag' = notifyCatch(failFlag, res)
  /\ tgReply' = Append(tgReply, r)
  /\ mainPc' = "exited"
  /\ exitCode' = IF failFlag' THEN 1 ELSE 0
  /\ UNCHANGED <<env, formatter, ghOutput, accounts, acct, summaryLines, output, uncaught, tgRequests>>

NextSingle ==
  \/ StartSingle
  \/ \E r \in LoginResponses : LoginReplySingle(r)
  \/ \E r \in CheckinResponses : CheckinReplySingle(r)
  \/ \E r \in TgResponses : NotifyReplySingle(r)

-----------------------------------------------------------------------------
(* Script "traffic"                                                        *)

\* main, lines 344-360: the accounts, then accounts.map(processSingleAccount),
\* which runs every flow up to the fetch of its logIn; no account object is
\* looked into before.  setGitHubOutput of this script (line 212) throws when
\* GITHUB_OUTPUT is not set.
StartTraffic ==
  /\ variant = "traffic" /\ mainPc = "init"
  /\ IF config.kind \in {"absent", "invalid"}
     THEN /\ \E found \in BOOLEAN :
               setGitHubOutputTraffic(found,
                 <<IF config.kind = "absent"
                   THEN <<IconFail, IconFail, "wei peizhi zhanghu xinxi">>
                   ELSE <<IconFail, "zhanghu xinxi peizhi geshi cuowu">>>>, 1)
          /\ UNCHANGED <<accounts, acct>>
     ELSE IF config.kind = "object"
     THEN /\ Crash
          /\ UNCHANGED <<accounts, acct, output, ghOutput>>
     ELSE /\ Begin(config.n, 1..config.n)
          /\ UNCHANGED <<exitCode, uncaught, output, ghOutput>>
  /\ UNCHANGED <<env, formatter, summaryLines, failFlag, tg>>

\* A flow that starts over with a new login request when a step has failed.
rejectTrafficRetry(i, err) ==
  /\ pc' = [pc EXCEPT ![i] = "Login"]
  /\ sent' = [sent EXCEPT ![i] = <<"login">>]
  /\ cookie' = [cookie EXCEPT ![i] = <<>>]
  /\ checkinMsg' = [checkinMsg EXCEPT ![i] = <<>>]
  /\ UNCHANGED results

\* processSingleAccount rejects: the flow of account i ends with the error
rejectTraffic(i, err) ==
  /\ results' = [results EXCEPT ![i] = RejectedWith(err)]
  /\ pc' = [pc EXCEPT ![i] = "Failed"]
  /\ cookie' = [cookie EXCEPT ![i] = <<>>]
  /\ checkinMsg' = [checkinMsg EXCEPT ![i] = <<>>]
  /\ UNCHANGED sent

\* A logIn that keeps the cookie in one place for all the flows.
LoginReplyTrafficSharedCookie(i, r) ==
  /\ variant = "traffic" /\ mainPc = "accounts"
  /\ i \in 1..Len(accounts) /\ pc[i] = "Login"
  /\ LET cooked == logInTraffic(r, hasGetSetCookie)
     IN IF cooked.thrown
        THEN rejectTraffic(i, cooked.err)
        ELSE /\ pc' = [pc EXCEPT ![i] = "CheckIn"]
             /\ cookie' = [k \in DOMAIN cookie |->
                             IF k = i \/ pc[k] \in {"CheckIn", "Traffic"}
                             THEN cooked.cookie ELSE cookie[k]]
             /\ sent' = [sent EXCEPT ![i] = Append(@, "checkin")]
             /\ UNCHANGED <<checkinMsg, results>>
  /\ UNCHANGED <<env, formatter, ghOutput, mainPc, accounts, blocks, summaryLines,
                 output, failFlag, exitCode, uncaught, tg>>

\* The login response of account i arrives: logIn, lines 276-288, and
\* processSingleAccount up to the fetch of checkIn
LoginReplyTraffic(i, r) ==
  /\ variant = "traffic" /\ mainPc = "accounts"
  /\ i \in 1..Len(accounts) /\ pc[i] = "Login"
  /\ LET cooked == logInTraffic(r, hasGetSetCookie)
     IN IF cooked.thrown
        THEN rejectTraffic(i, cooked.err)
        ELSE /\ pc' = [pc EXCEPT ![i] = "CheckIn"]
             /\ cookie' = [cookie EXCEPT ![i] = cooked.cookie]
             /\ sent' = [sent EXCEPT ![i] = Append(@, "checkin")]
             /\ UNCHANGED <<checkinMsg, results>>
  /\ UNCHANGED <<env, formatter, ghOutput, mainPc, accounts, blocks, summaryLines, output, failFlag,
                 exitCode, uncaught, tg>>

\* The check-in response of account i arrives: checkIn, lines 298-304, and
\* processSingleAccount up to the fetch of getUserHtml
CheckinReplyTraffic(i, r) ==
  /\ variant = "traffic" /\ mainPc = "accounts"
  /\ i \in 1..Len(accounts) /\ pc[i] = "CheckIn"
  /\ LET res == checkInTraffic(r)
     IN IF res.thrown
        THEN rejectTraffic(i, res.err)
        ELSE /\ pc' = [pc EXCEPT ![i] = "Traffic"]
             /\ checkinMsg' = [checkinMsg EXCEPT ![i] = res.msg]
             /\ sent' = [sent EXCEPT ![i] = Append(@, "user")]
             /\ UNCHANGED <<cookie, results>>
  /\ UNCHANGED <<env, formatter, ghOutput, mainPc, accounts, blocks, summaryLines, output, failFlag,
                 exitCode, uncaught, tg>>

\* The user page of account i arrives: getUserHtml, lines 318-319, and
\* processSingleAccount, lines 330-339
UserReplyTraffic(i, r) ==
  /\ variant = "traffic" /\ mainPc = "accounts"
  /\ i \in 1..Len(accounts) /\ pc[i] = "Traffic"
  /\ LET res == getUserHtml(r)
     IN IF res.thrown
        THEN rejectTraffic(i, res.err)
        ELSE /\ results' = [results EXCEPT ![i] = Fulfilled(trafficReport(checkinMsg[i], r.html))]
             /\ pc' = [pc EXCEPT ![i] = "Done"]
             /\ cookie' = [cookie EXCEPT ![i] = <<>>]
             /\ checkinMsg' = [checkinMsg EXCEPT ![i] = <<>>]
             /\ UNCHANGED sent
  /\ UNCHANGED <<env, formatter, ghOutput, mainPc, accounts, blocks, summaryLines, output, failFlag,
                 exitCode, uncaught, tg>>

\* Lines that take the account of a result by its outcome, not by its place:
\* the fulfilled results first.
resultLinesByOutcome(accts, res) ==
  LET done == {i \in 1..Len(res) : res[i].status = "fulfilled"}
      before(idx) == Cardinality({i \in 1..Len(res) :
                        \/ i \in done /\ (idx \notin done \/ i < idx)
                        \/ i \notin done /\ idx \notin done /\ i < idx})
      at(k) == CHOOSE idx \in 1..Len(res) : before(idx) = k - 1
  IN [k \in 1..Len(res) |->
        <<accts[at(k)].name, ":",
          IF res[at(k)].status = "fulfilled" THEN IconOk ELSE IconFail>>
        \o res[at(k)].value]

\* results.map of main, lines 366-377: one line per settled result
resultLines(accts, res) ==
  [idx \in 1..Len(res) |->
     <<accts[idx].name, ":",
       IF res[idx].status = "fulfilled" THEN IconOk ELSE IconFail>>
     \o res[idx].value]

\* Promise.allSettled has every result: main, lines 362-382
SettleTraffic ==
  /\ variant = "traffic" /\ mainPc = "accounts"
  /\ \A i \in 1..Len(accounts) : pc[i] \in {"Done", "Failed"}
  /\ LET hasError == \E i \in 1..Len(results) : results[i].status # "fulfilled"
     IN /\ failFlag' = hasError
        /\ summaryLines' = resultLines(accounts, results)
        /\ \E found \in BOOLEAN :
             setGitHubOutputTraffic(found, resultLines(accounts, results),
                                    IF hasError THEN 1 ELSE 0)
  /\ UNCHANGED <<env, formatter, accounts, acct, tg>>

NextTraffic ==
  \/ StartTraffic
  \/ \E i \in 1..MaxAccounts, r \in LoginResponses : LoginReplyTraffic(i, r)
  \/ \E i \in 1..MaxAccounts, r \in CheckinResponses : CheckinReplyTraffic(i, r)
  \/ \E i \in 1..MaxAccounts, r \in UserResponses : UserReplyTraffic(i, r)
  \/ SettleTraffic

-----------------------------------------------------------------------------
(* Script "sequential"                                                     *)

EscapeToken(t) ==
  IF t = "&" THEN "&amp;"
  ELSE IF t = "<" THEN "&lt;"
  ELSE IF t = ">" THEN "&gt;"
  ELSE IF t = "\"" THEN "&quot;"
  ELSE IF t = "'" THEN "&#39;"
  ELSE t

escapeHtml(line) == [k \in 1..Len(line) |-> EscapeToken(line[k])]

\* detectOverallIcon(lines): the three tests on lines.join("\n")
detectOverallIcon(lines) ==
  IF \E k \in 1..Len(lines) : Has(lines[k], KwFail) THEN IconFail
  ELSE IF \E k \in 1..Len(lines) : Has(lines[k], KwAlready) THEN IconWarn
  ELSE IF \E k \in 1..Len(lines) : Has(lines[k], KwSuccess) THEN IconOk
  ELSE IconInfo

TimeStr == "yyyy-mm-dd hh:mi:ss"

\* A notification text that leaves the summary lines out.
buildTelegramHtmlNoLines(lines) ==
  <<<<detectOverallIcon(lines), "<b>", "IKUUU qiandao tongzhi (huizong)", "</b>">>,
    <<"<b>", "shijian:", "</b>", TimeStr>>,
    <<"<pre>">>, <<"</pre>">>, <<"#ikuuu #checkin">>>>

buildTelegramHtml(lines) ==
  <<<<detectOverallIcon(lines), "<b>", "IKUUU qiandao tongzhi (huizong)", "</b>">>,
    <<"<b>", "shijian:", "</b>", TimeStr>>,
    <<"<pre>">>>>
  \o [k \in 1..Len(lines) |-> escapeHtml(lines[k])]
  \o <<<<"</pre>">>, <<"#ikuuu #checkin">>>>

\* The arguments of the three buildAccountBlock calls of the main function.
blockNoCookie ==
  [branch |-> "nocookie", hasLogin |-> TRUE, loginRaw |-> TxtNoSessionCookie,
   hasCheckin |-> FALSE, checkinRaw |-> <<>>, extraRaw |-> <<TxtCheckAccount>>]
blockNormal(msg) ==
  [branch |-> "normal", hasLogin |-> TRUE, loginRaw |-> TxtLoginOk,
   hasCheckin |-> TRUE, checkinRaw |-> msg, extraRaw |-> <<>>]
blockException(err) ==
  [branch |-> "exception", hasLogin |-> TRUE, loginRaw |-> TxtException,
   hasCheckin |-> FALSE, checkinRaw |-> <<>>, extraRaw |-> <<<<"yichang", ":">> \o err>>]

\* main, lines 636-644: parseAccountsFromConfig, which checks every account,
\* then the first logIn up to its fetch; an error of the configuration
\* reaches the catch of line 697
StartSequential ==
  /\ variant = "sequential" /\ mainPc = "init"
  /\ IF config.kind \in {"absent", "invalid"} \/ config.n = 0 \/ config.bad # 0
     THEN /\ Crash
          /\ UNCHANGED <<accounts, acct>>
     ELSE /\ Begin(config.n, {1})
          /\ UNCHANGED <<exitCode, uncaught>>
  /\ UNCHANGED <<env, formatter, ghOutput, summaryLines, output, failFlag, tg>>

\* The loop body of account i ends by pushing its block (lines 647-653,
\* 660-666 or 669-675); then the next account's logIn runs up to its fetch,
\* or after the last account lines 680-693 run up to the fetch of
\* sendTelegramHtml.
pushBlock(i, blk) ==
  \E pushed \in {summaryLines \o buildAccountBlock(accounts[i].name, blk) \o <<<<>>>>} :
  \E final \in {popBlank(pushed)} :
     /\ blocks' = [blocks EXCEPT ![i] = blk]
     /\ cookie' = [cookie EXCEPT ![i] = <<>>]
     /\ IF i < Len(accounts)
        THEN /\ pc' = [pc EXCEPT ![i] = IF blk.branch = "normal" THEN "Done" ELSE "Failed",
                                  ![i + 1] = "Login"]
             /\ sent' = [sent EXCEPT ![i + 1] = <<"login">>]
             /\ summaryLines' = pushed
             /\ UNCHANGED <<ghOutput, mainPc, output, exitCode, tg>>
        ELSE /\ pc' = [pc EXCEPT ![i] = IF blk.branch = "normal" THEN "Done" ELSE "Failed"]
             /\ UNCHANGED sent
             /\ summaryLines' = final
             /\ \E found \in BOOLEAN : setGitHubOutput(found, final)
             /\ IF tgConfigured
                THEN /\ mainPc' = "notify"
                     /\ notify' = "waiting"
                     /\ tgRequests' = Append(tgRequests, buildTelegramHtml(
                           IF final # <<>> THEN final
                           ELSE <<<<"wu keyong jieguo (CONFIG keneng wei kong)">>>>))
                     /\ UNCHANGED <<exitCode, sentLogged, tgReply>>
                ELSE /\ mainPc' = "exited"
                     /\ notify' = "skipped"
                     /\ exitCode' = 0
                     /\ UNCHANGED <<sentLogged, tgRequests, tgReply>>
     /\ UNCHANGED <<env, formatter, accounts, results, failFlag, uncaught>>

\* The loop body without its try/catch: the error leaves the loop.
catchSequentialRethrow(i, err) ==
  /\ Crash
  /\ UNCHANGED <<env, formatter, ghOutput, accounts, acct, summaryLines, output, failFlag, tg>>

\* The catch block of the loop body, lines 667-676
catchSequential(i, err) ==
  pushBlock(i, blockException(err)) /\ UNCHANGED checkinMsg

\* The login response of account i arrives: logIn, lines 529-535, and the
\* loop body, lines 644-657
LoginReplySequential(i, r) ==
  /\ variant = "sequential" /\ mainPc = "accounts"
  /\ i \in 1..Len(accounts) /\ pc[i] = "Login"
  /\ LET loginRes == logInSeq(r, hasGetSetCookie)
     IN IF loginRes.thrown
        THEN catchSequential(i, loginRes.err)
        ELSE IF ~loginRes.ok
        THEN pushBlock(i, blockNoCookie) /\ UNCHANGED checkinMsg
        ELSE /\ pc' = [pc EXCEPT ![i] = "CheckIn"]
             /\ cookie' = [cookie EXCEPT ![i] = loginRes.cookie]
             /\ sent' = [sent EXCEPT ![i] = Append(@, "checkin")]
             /\ UNCHANGED <<env, formatter, ghOutput, mainPc, accounts, checkinMsg, results, blocks,
                            summaryLines, output, failFlag, exitCode, uncaught, tg>>

\* The check-in response of account i arrives: checkIn, lines 551-552, and
\* the loop body, lines 657-666
CheckinReplySequential(i, r) ==
  /\ variant = "sequential" /\ mainPc = "accounts"
  /\ i \in 1..Len(accounts) /\ pc[i] = "CheckIn"
  /\ LET checkinRes == checkInSeq(r)
     IN IF checkinRes.thrown
        THEN catchSequential(i, checkinRes.err)
        ELSE /\ pushBlock(i, blockNormal(seqCheckinMsg(checkinRes)))
             /\ checkinMsg' = [checkinMsg EXCEPT ![i] = seqCheckinMsg(checkinRes)]

\* Telegram answers: sendTelegramHtml, lines 483-488, and lines 694-696;
\* the process then ends with nothing left to run
NotifyReplySequential(r) ==
  /\ variant = "sequential" /\ mainPc = "notify"
  /\ LET res == sendTelegram(r)
     IN /\ notify' = IF res.thrown THEN "caught" ELSE "returned"
        /\ sentLogged' = ~res.thrown
  /\ tgReply' = Append(tgReply, r)
  /\ mainPc' = "exited"
  /\ exitCode' = 0
  /\ UNCHANGED <<env, formatter, ghOutput, accounts, acct, summaryLines, output, failFlag, uncaught, tgRequests>>

NextSequential ==
  \/ StartSequential
  \/ \E i \in 1..MaxAccounts, r \in LoginResponses : LoginReplySequential(i, r)
  \/ \E i \in 1..MaxAccounts, r \in CheckinResponses : CheckinReplySequential(i, r)
  \/ \E r \in TgResponses : NotifyReplySequential(r)

Next == NextSingle \/ NextTraffic \/ NextSequential

Spec == Init /\ [][Next]_vars

\* Every fetch settles, with a response or a rejection, and the event loop
\* runs every continuation that is ready: a step that stays possible is taken.
FairSpec == Spec /\ WF_vars(Next)

-----------------------------------------------------------------------------
(* formatCookie called on its own, on any list of raw Set-Cookie strings   *)

RawNoName == <<"=", "x">>
RawBlankName == <<" ", "=", "x">>
RawEmptyValue == <<"u", "=">>
RawTwoEquals == <<"t", "=", "1", "=", "2", ";", "u", "=", "3">>
RawEmpty == <<>>

RawCookieStrings ==
  {RawSidA, RawSidB, RawUid, RawJunk, RawNoName, RawBlankName, RawEmptyValue,
   RawTwoEquals, RawEmpty}

RawLists == UNION {[1..n -> RawCookieStrings] : n \in 0..MaxCookies}

InitFormatCookie ==
  /\ variant = "sequential"
  /\ config = [kind |-> "absent", n |-> 0, bad |-> 0]
  /\ hasGetSetCookie = TRUE
  /\ tgConfigured = FALSE
  /\ Fresh
  /\ rawList \in RawLists
  /\ merged = NotMerged

CallFormatCookie ==
  /\ ~merged.done
  /\ merged' = [done |-> TRUE, value |-> formatCookie(rawList)]
  /\ UNCHANGED <<env, rawList, ghOutput, mainPc, accounts, acct, summaryLines,
                 output, failFlag, exitCode, uncaught, tg>>

SpecFormatCookie == InitFormatCookie /\ [][CallFormatCookie]_vars

-----------------------------------------------------------------------------
(* Notions the properties share                                            *)

Exited == mainPc = "exited"

\* The configuration is a list of accounts the script accepts.
ValidList ==
  IF variant = "traffic" THEN config.kind = "array"
  ELSE config.kind \in {"object", "array"} /\ config.n >= 1 /\ config.bad = 0

\* The summary has exactly one line (script "traffic") or one block (script
\* "sequential") of account i, and in "traffic" it is the i-th line.
HasOwnEntry(i) ==
  IF variant = "traffic"
  THEN /\ Len(summaryLines) = config.n
       /\ summaryLines[i][1] = Account(i).name
  ELSE Cardinality({k \in 1..Len(summaryLines) :
                      summaryLines[k] = <<"[user]", Account(i).name>>}) = 1

\* The block of account i, as buildAccountBlock renders it, shows a failure.
BlockShowsFailure(i) ==
  LET b == buildAccountBlock(accounts[i].name, blocks[i])
  IN \E k \in 1..Len(b) : \E t \in 1..Len(b[k]) : b[k][t] = IconFail

\* The summary shows account i as failed.
ShownFailed(i) ==
  IF variant = "single" THEN IconFail = summaryLines[2][1]
  ELSE IF variant = "traffic" THEN IconFail = summaryLines[i][3]
  ELSE LET b == buildAccountBlock(accounts[i].name, blocks[i])
       IN /\ BlockShowsFailure(i)
          /\ \E j \in 1..Len(summaryLines) :
               /\ j + Len(b) - 1 <= Len(summaryLines)
               /\ SubSeq(summaryLines, j, j + Len(b) - 1) = b

\* The flow of account i has ended and recorded a failure.
RecordedFailed(i) ==
  /\ pc[i] = "Failed"
  /\ IF variant = "sequential" THEN blocks[i].branch \in {"nocookie", "exception"}
     ELSE results[i].status = "rejected"

-----------------------------------------------------------------------------
(* C1.  Failure isolation: with a list of accounts configured, when the    *)
(* scripts "traffic" and "sequential" are past their accounts every        *)
(* configured account has run to its end, whichever of them failed or      *)
(* threw, and the summary holds exactly one line or block of each.         *)
C1_FailureIsolation ==
  (variant \in {"traffic", "sequential"} /\ ValidList /\ mainPc \in {"notify", "exited"})
  => /\ Len(pc) = config.n
     /\ \A i \in 1..config.n : pc[i] \in {"Done", "Failed"} /\ HasOwnEntry(i)

\* An account's flow threw and a later account still ran to a successful end.
C1_Witness ==
  /\ variant = "sequential" /\ Exited
  /\ \E i, j \in 1..Len(pc) :
       i < j /\ blocks[i].branch = "exception" /\ pc[j] = "Done"

(* C2.  The process ends with status 0 only when every account succeeded:  *)
(* an account whose flow ended in failure makes the status non-zero.       *)
C2_ExitStatus ==
  Exited => (exitCode = 0 => \A i \in 1..Len(pc) : pc[i] = "Done")

C4_BodyNotOkIsFailure ==
  \A k \in 1..Len(tgReply) :
    (tgReply[k].net = "ok" /\ RespOk(tgReply[k]) /\ ~tgReply[k].bodyOk)
    => (notify = "caught" /\ ~sentLogged)

-----------------------------------------------------------------------------
(* Properties of the step that handles a response.  The response is an     *)
(* input of the step, so they are stated of the step: for every response   *)
(* that takes the script from the state before to the state after.         *)

AwaitsLogin(i) == i \in DOMAIN pc /\ pc[i] = "Login"
AwaitsCheckin(i) == i \in DOMAIN pc /\ pc[i] = "CheckIn"

LoginReply(i, r) ==
  \/ i = 1 /\ LoginReplySingle(r)
  \/ LoginReplyTraffic(i, r)
  \/ LoginReplySequential(i, r)

CheckinReply(i, r) ==
  \/ i = 1 /\ CheckinReplySingle(r)
  \/ CheckinReplyTraffic(i, r)
  \/ CheckinReplySequential(i, r)

\* The site accepted the login: success status, a JSON body with ret = 1,
\* and Set-Cookie values.
LoginSucceeded(r) ==
  /\ r.net = "ok" /\ RespOk(r)
  /\ r.body.kind = "json" /\ r.body.hasRet /\ r.body.ret = 1
  /\ r.setCookie # <<>>

\* The check-in request was answered with a success status and a JSON body.
CheckinSucceeded(r) == r.net = "ok" /\ RespOk(r) /\ r.body.kind = "json"

\* The outcome recorded for account i is a failure: a rejected result, or in
\* the script "sequential" a block that shows a failure.
ReportedFailed(i) ==
  IF variant = "sequential" THEN BlockShowsFailure(i)
  ELSE results[i].status = "rejected"

\* The text of the error recorded for account i.
ErrorText(i) ==
  IF variant = "sequential"
  THEN IF blocks[i].extraRaw # <<>> THEN blocks[i].extraRaw[1] ELSE <<>>
  ELSE results[i].value

Embeds(text, m) ==
  \E a \in 0..(Len(text) - Len(m)) : SubSeq(text, a + 1, a + Len(m)) = m

\* The requests of an account follow the order login, check-in, user page.
SentInOrder ==
  \A i \in DOMAIN sent :
    sent[i] = SubSeq(<<"login", "checkin", "user">>, 1, Len(sent[i]))

\* A flow that has ended stays ended and sends nothing more.
EndedIsFinal ==
  \A i \in DOMAIN pc :
    pc[i] \in {"Done", "Failed"} =>
      /\ pc'[i] = pc[i] /\ sent'[i] = sent[i]
      /\ (RecordedFailed(i) => RecordedFailed(i)')

\* The summary has been built.
SummaryBuilt ==
  /\ mainPc \in {"notify", "exited"}
  /\ IF variant = "traffic" THEN Len(summaryLines) = Len(pc) ELSE summaryLines # <<>>

(* C5.  The steps of an account are totally ordered and stop at the first  *)
(* failure: the check-in request is sent only after the login succeeded,   *)
(* the user-page request only after the check-in succeeded, and a step     *)
(* that fails sends nothing more and leaves its error as the result.       *)
C5_StepsOrdered ==
  /\ []SentInOrder
  /\ [][EndedIsFinal]_vars
  /\ [][\A i \in 1..MaxAccounts : AwaitsLogin(i) =>
          \A r \in LoginResponses : LoginReply(i, r) =>
            IF LoginSucceeded(r)
            THEN sent'[i] \in {sent[i], Append(sent[i], "checkin")}
            ELSE sent'[i] = sent[i] /\ RecordedFailed(i)']_vars
  /\ [][\A i \in 1..MaxAccounts : AwaitsCheckin(i) =>
          \A r \in CheckinResponses : CheckinReply(i, r) =>
            IF CheckinSucceeded(r)
            THEN sent'[i] \in {sent[i], Append(sent[i], "user")}
            ELSE sent'[i] = sent[i] /\ ReportedFailed(i)']_vars

\* The site refused the login: a JSON body whose ret is not 1.
LoginRefused(r) ==
  /\ r.net = "ok" /\ RespOk(r)
  /\ r.body.kind = "json" /\ r.body.hasRet /\ r.body.ret # 1

(* C6.  A login response whose ret is not 1 makes the login fail with the  *)
(* message of the site in the error, whatever cookies it carries: the      *)
(* account is recorded as failed and no check-in request is sent.          *)
C6_RefusedLoginFails ==
  [][\A i \in 1..MaxAccounts : AwaitsLogin(i) =>
       \A r \in {x \in LoginResponses : LoginRefused(x)} : LoginReply(i, r) =>
         /\ sent'[i] = <<"login">>
         /\ ReportedFailed(i)'
         /\ r.body.msg # <<>> => Embeds(ErrorText(i)', r.body.msg)]_vars

(* C7.  A login response with ret = 1 and no Set-Cookie value, so that the *)
(* multi-value path and the single-value fallback are both empty, makes    *)
(* the login fail: no check-in request is sent, the account is recorded as *)
(* failed, stays so, and the summary shows it as failed.                   *)
C7_NoCookieLoginFails ==
  /\ [][\A i \in 1..MaxAccounts : AwaitsLogin(i) =>
          \A r \in {x \in LoginResponses :
                      /\ x.net = "ok" /\ x.body.kind = "json"
                      /\ x.body.hasRet /\ x.body.ret = 1
                      /\ x.setCookie = <<>>} :
            LoginReply(i, r) => (sent'[i] = <<"login">> /\ RecordedFailed(i)')]_vars
  /\ [][EndedIsFinal]_vars
  /\ [](SummaryBuilt => \A i \in DOMAIN pc : RecordedFailed(i) => ShownFailed(i))

\* The script "single" ended on the error that logIn throws for a response
\* without cookies, after the login request alone.
C7_Witness ==
  /\ variant = "single" /\ Exited
  /\ results = <<RejectedWith(<<"huoqu Cookie shibai (Set-Cookie wei kong)">>)>>
  /\ sent = <<<<"login">>>>

(* C8.  A check-in response with a status that is not a success makes the  *)
(* check-in fail, and the account is recorded as failed, whatever the body *)
(* of the response holds.                                                  *)
C8_CheckinHttpFailure ==
  [][\A i \in 1..MaxAccounts : AwaitsCheckin(i) =>
       \A r \in {x \in CheckinResponses : x.net = "ok" /\ ~RespOk(x)} :
         CheckinReply(i, r) => ReportedFailed(i)']_vars

\* The check-in did not end the flow of account i with a failure.
CheckinCounted(i, m) ==
  /\ checkinMsg[i] = m
  /\ ~ReportedFailed(i) \/ variant = "sequential"
  /\ IF variant = "single" THEN results[i] = Fulfilled(m) /\ pc[i] = "Done" /\ ~failFlag
     ELSE IF variant = "traffic" THEN pc[i] = "Traffic" /\ sent[i][Len(sent[i])] = "user"
     ELSE blocks[i] = blockNormal(m) /\ pc[i] = "Done"

Undecodable(r) == r.net = "ok" /\ r.body.kind \in {"empty", "html"}

(* C10.  A login or check-in response whose body is empty or is not JSON   *)
(* always produces an error for the account: the account is recorded as    *)
(* failed, never as a success or a neutral result.                         *)
C10_UndecodableIsError ==
  /\ [][\A i \in 1..MaxAccounts : AwaitsLogin(i) =>
          \A r \in {x \in LoginResponses : Undecodable(x)} :
            LoginReply(i, r) => ReportedFailed(i)']_vars
  /\ [][\A i \in 1..MaxAccounts : AwaitsCheckin(i) =>
          \A r \in {x \in CheckinResponses : Undecodable(x)} :
            CheckinReply(i, r) => ReportedFailed(i)']_vars

-----------------------------------------------------------------------------
(* Properties of the configuration and of the run as a whole               *)

\* The configuration is absent, is not JSON, or holds an account object
\* without email or passwd.
ConfigBroken == config.kind \in {"absent", "invalid"} \/ config.bad # 0

\* No login, check-in, user-page or notification request has been sent.
NoRequestSent == (\A i \in DOMAIN sent : sent[i] = <<>>) /\ tgRequests = <<>>

(* C11.  With a configuration that is absent, is not JSON, or has an        *)
(* account without email or passwd, the run sends no request at all and,   *)
(* once started, has ended with a non-zero status.                         *)
C11_ConfigErrorBeforeNetwork ==
  ConfigBroken => (NoRequestSent /\ (mainPc # "init" => (Exited /\ exitCode # 0)))

\* Every account of the run has run to its end.
AllFinished == \A i \in DOMAIN pc : pc[i] \in {"Done", "Failed"}

\* The text posted to Telegram carries the outcome of account i: the result
\* line of "single", the rendered and escaped block of "sequential".
Carries(text, i) ==
  IF variant = "single"
  THEN Len(text) >= 2 /\ text[2] =
         <<IF results[i].status = "fulfilled" THEN IconOk ELSE IconFail>> \o results[i].value
  ELSE LET b == buildAccountBlock(accounts[i].name, blocks[i])
           eb == [k \in 1..Len(b) |-> escapeHtml(b[k])]
       IN \E j \in 1..Len(text) :
            j + Len(eb) - 1 <= Len(text) /\ SubSeq(text, j, j + Len(eb) - 1) = eb

(* C12, as the claim states it.  Every run with the Telegram credentials   *)
(* configured sends exactly one notification request, after every account  *)
(* has finished, and the text carries the outcome of every account.        *)
C12_OneNotificationEveryRun ==
  /\ tgRequests # <<>> => AllFinished
  /\ (tgConfigured /\ Exited) =>
       /\ Len(tgRequests) = 1
       /\ \A i \in DOMAIN pc : Carries(tgRequests[1], i)

(* C12, amended.  The scripts "single" and "sequential", once they have    *)
(* accepted the configuration and with the credentials configured, send    *)
(* exactly one notification request in the run: after every account has    *)
(* finished, with a text that carries the outcome of every account that    *)
(* ran.  No request is sent without credentials, by a run that ends on a   *)
(* configuration error, or by the script "traffic", which has no notifier. *)
C12_OneNotificationPerNotifiedRun ==
  /\ Len(tgRequests) <= 1
  /\ tgRequests # <<>> =>
       /\ tgConfigured /\ variant \in {"single", "sequential"}
       /\ AllFinished
       /\ \A i \in DOMAIN pc : Carries(tgRequests[1], i)
  /\ (tgConfigured /\ variant \in {"single", "sequential"} /\ accounts # <<>>
        /\ mainPc \in {"notify", "exited"}) => Len(tgRequests) = 1
  /\ (~tgConfigured \/ variant = "traffic" \/ accounts = <<>>) => tgRequests = <<>>

\* The script "sequential" ended after two accounts, one failed and one
\* done, having posted one text.
C12_Witness ==
  /\ variant = "sequential" /\ Exited /\ Len(tgRequests) = 1
  /\ \E i, j \in DOMAIN pc : pc[i] = "Failed" /\ pc[j] = "Done"

\* The value the scripts write under "result" for the summary they built:
\* the result line of "single", all the lines of the other two.
SummaryValue == IF variant = "single" THEN <<summaryLines[2]>> ELSE summaryLines

(* C13.  Every run, whatever its outcome, writes the key "result" exactly   *)
(* once: never twice, and once the run has ended, with GITHUB_OUTPUT not   *)
(* found unset, the value is there and is the summary when one was built.  *)
C13_ResultWrittenOnce ==
  /\ Len(output) <= 1
  /\ (Exited /\ ghOutput # "unset") =>
       /\ Len(output) = 1
       /\ summaryLines # <<>> => output[1] = SummaryValue

\* The number of login requests sent for account i.
Logins(i) == Cardinality({k \in 1..Len(sent[i]) : sent[i][k] = "login"})

(* C14.  With one account object or an array of n account objects, each    *)
(* with email and passwd, every configured account gets exactly one login  *)
(* request in the run: never a second one, and when the run has ended none *)
(* of the configured accounts was left out.                                *)
C14_OncePerAccount ==
  /\ \A i \in DOMAIN sent : Logins(i) <= 1
  /\ (Exited /\ config.kind \in {"object", "array"} /\ config.bad = 0) =>
       /\ Len(sent) = config.n
       /\ \A i \in DOMAIN sent : Logins(i) = 1

-----------------------------------------------------------------------------
(* The cookie formatter                                                    *)

\* The raw string has the shape name=value: an "=" with a name before it
\* that is not blank.
HasShape(s) ==
  LET p == IndexFrom(s, "=", 1)
  IN p >= 1 /\ Trim(SubSeq(s, 1, p - 1)) # <<>>

NameOf(s) == Trim(SubSeq(s, 1, IndexFrom(s, "=", 1) - 1))

\* The value: what stands between the first "=" and the first ";" after it.
ValueOf(s) ==
  LET p == IndexFrom(s, "=", 1)
      e == IndexFrom(s, ";", p + 1)
  IN Trim(SubSeq(s, p + 1, IF e = 0 THEN Len(s) ELSE e - 1))

Shaped(raw) == {k \in 1..Len(raw) : HasShape(raw[k])}

\* The places where a name is seen for the first time.
FirstSeen(raw) ==
  {k \in Shaped(raw) :
     \A j \in Shaped(raw) : j < k => NameOf(raw[j]) # NameOf(raw[k])}

\* The last place that has the name of place k.
LastOf(raw, k) ==
  CHOOSE j \in Shaped(raw) :
    /\ NameOf(raw[j]) = NameOf(raw[k])
    /\ \A l \in Shaped(raw) : NameOf(raw[l]) = NameOf(raw[k]) => l <= j

RECURSIVE Ascending(_)
Ascending(S) ==
  IF S = {} THEN <<>>
  ELSE LET m == CHOOSE x \in S : \A y \in S : x <= y
       IN <<m>> \o Ascending(S \ {m})

\* One name=value per distinct name, in first-seen order, each with the
\* value of the last entry of that name, joined by "; ".
ExpectedCookie(raw) ==
  LET first == Ascending(FirstSeen(raw))
  IN JoinChars([i \in 1..Len(first) |->
                  NameOf(raw[first[i]]) \o <<"=">> \o ValueOf(raw[LastOf(raw, first[i])])],
               <<";", " ">>)

(* C15.  formatCookie, for any list of raw Set-Cookie strings, yields each  *)
(* distinct name once, in first-seen order, with the value of the name's   *)
(* last occurrence; entries without the shape name=value are skipped.      *)
C15_FormatCookie == merged.done => merged.value = ExpectedCookie(rawList)

-----------------------------------------------------------------------------
(* Accounts run concurrently                                               *)

(* C16.  In the script "traffic", whatever the order in which the          *)
(* responses arrived and the accounts finished, the summary has one line   *)
(* per configured account, and line i is the line of the i-th account: its *)
(* name with the outcome of its own flow, a success exactly when that flow *)
(* sent its three requests and ended done.                                 *)
C16_LinePerAccountInOrder ==
  (variant = "traffic" /\ config.kind = "array" /\ Exited) =>
    /\ Len(summaryLines) = config.n
    /\ \A i \in 1..config.n :
         /\ pc[i] \in {"Done", "Failed"}
         /\ summaryLines[i] =
              <<Account(i).name, ":", IF pc[i] = "Done" THEN IconOk ELSE IconFail>>
              \o results[i].value
         /\ pc[i] = "Done" <=>
              (results[i].status = "fulfilled" /\ sent[i] = <<"login", "checkin", "user">>)

\* Two accounts, the first failed and the second done: the lines are in the
\* order of the configuration.
C16_Witness ==
  /\ variant = "traffic" /\ Exited /\ config.n = 2
  /\ pc = <<"Failed", "Done">>
  /\ Len(summaryLines) = 2
  /\ summaryLines[1][3] = IconFail /\ summaryLines[2][3] = IconOk

\* The cookie the logIn of the running script makes of the response r.
LoginCookie(r) ==
  IF variant = "single" THEN logInSingle(r, hasGetSetCookie).cookie
  ELSE IF variant = "traffic" THEN logInTraffic(r, hasGetSetCookie).cookie
  ELSE logInSeq(r, hasGetSetCookie).cookie

\* The flow of account i holds a cookie for the requests it sends.
HoldsCookie(i) == pc[i] \in {"CheckIn", "Traffic"}

(* C17.  The cookie that the check-in and the user-page request of an      *)
(* account carry is the one its own login produced in this run: the flow   *)
(* takes it from the response to its own login request when it sends the   *)
(* check-in, keeps it for the user-page request, and no step of another    *)
(* account, in any interleaving, changes it.                               *)
C17_OwnCookie ==
  [][\A i \in DOMAIN cookie :
       /\ (pc[i] = "Login" /\ pc'[i] = "CheckIn") =>
            \E r \in LoginResponses : LoginReply(i, r) /\ cookie'[i] = LoginCookie(r)
       /\ (HoldsCookie(i) /\ HoldsCookie(i)') => cookie'[i] = cookie[i]
       /\ (HoldsCookie(i) /\ pc'[i] = pc[i]) => cookie'[i] = cookie[i]
       /\ (~HoldsCookie(i)') => cookie'[i] = <<>>]_vars

\* Two flows of the script "traffic" hold different cookies at a time.
C17_Witness ==
  /\ variant = "traffic" /\ Len(pc) >= 2
  /\ HoldsCookie(1) /\ HoldsCookie(2)
  /\ cookie[1] # <<>> /\ cookie[2] # <<>> /\ cookie[1] # cookie[2]

-----------------------------------------------------------------------------
(* The summary and the notification                                        *)

(* C18.  When sendTelegram is called, setGitHubOutput has been called with *)
(* the summary: with GITHUB_OUTPUT set the value under "result" is the     *)
(* summary, and it is still that, and the only value, after the            *)
(* notification has returned or failed.                                    *)
C18_SummaryBeforeNotification ==
  (notify # "none") =>
    /\ ghOutput # "unread"
    /\ ghOutput = "set" => output = <<SummaryValue>>

\* The notification failed and the summary is under "result".
C18_Witness ==
  /\ notify = "caught" /\ ghOutput = "set" /\ Exited
  /\ output = <<SummaryValue>>

-----------------------------------------------------------------------------
(* Traffic extraction                                                      *)

AwaitsUser(i) == i \in DOMAIN pc /\ pc[i] = "Traffic"

\* The labels the patterns of a field look for.
RemainingLabels == {"shengyu liuliang", "keyong liuliang", "Remaining Traffic"}
UsedTotalLabels == {"leiji yiyong", "yiyong liuliang", "zonggong yiyong", "Used Traffic"}
UsedTodayLabels == {"jinri yiyong", "jinri shiyong", "Today Used"}

\* No pattern of the field matches in the page.
NoMatch(html, labels) ==
  \A k \in 1..Len(html) : html[k].label \in labels => html[k].value = ""

\* What the report shows behind the label of a part, "" when the report has
\* no such part.
ShownAfter(report, label) ==
  IF \E k \in 1..(Len(report) - 1) : report[k] = label
  THEN report[(CHOOSE k \in 1..(Len(report) - 1) : report[k] = label) + 1]
  ELSE ""

\* The user page arrived with a success status.
PageFetched(r) == r.net = "ok" /\ RespOk(r)

(* C19, as the claim states it.  Once the user page has been fetched the   *)
(* account is a success whatever the page holds, and each of remaining,    *)
(* usedTotal and usedToday that no pattern matches is shown in the report  *)
(* as the placeholder "retrieval failed".                                  *)
C19_EveryMissingFieldPlaceholder ==
  [][\A i \in 1..MaxAccounts : (AwaitsUser(i) /\ pc'[i] # pc[i]) =>
       \A r \in {x \in UserResponses : PageFetched(x)} : UserReplyTraffic(i, r) =>
         /\ pc'[i] = "Done" /\ results'[i].status = "fulfilled"
         /\ NoMatch(r.html, RemainingLabels) =>
              ShownAfter(results'[i].value, "shengyu:") = TxtFetchFailed
         /\ NoMatch(r.html, UsedTotalLabels) =>
              ShownAfter(results'[i].value, "leiji yiyong:") = TxtFetchFailed
         /\ NoMatch(r.html, UsedTodayLabels) =>
              ShownAfter(results'[i].value, "jinri yiyong:") = TxtFetchFailed]_vars

(* C19, amended.  Once the user page has been fetched the account is a     *)
(* success whatever the page holds; remaining and usedTotal are shown as   *)
(* the placeholder "retrieval failed" when no pattern matches them, while  *)
(* usedToday is then left out of the report: its part is there only with a *)
(* value found.                                                            *)
C19_MissingFieldsNeverFail ==
  [][\A i \in 1..MaxAccounts : (AwaitsUser(i) /\ pc'[i] # pc[i]) =>
       \A r \in {x \in UserResponses : PageFetched(x)} : UserReplyTraffic(i, r) =>
         /\ pc'[i] = "Done" /\ results'[i].status = "fulfilled"
         /\ NoMatch(r.html, RemainingLabels) =>
              ShownAfter(results'[i].value, "shengyu:") = TxtFetchFailed
         /\ NoMatch(r.html, UsedTotalLabels) =>
              ShownAfter(results'[i].value, "leiji yiyong:") = TxtFetchFailed
         /\ NoMatch(r.html, UsedTodayLabels) <=>
              ShownAfter(results'[i].value, "jinri yiyong:") = ""]_vars

\* An account is done with a report that shows the placeholder for what is
\* left and no part for today.
C19_Witness ==
  /\ variant = "traffic"
  /\ \E i \in DOMAIN pc :
       /\ pc[i] = "Done" /\ results[i].status = "fulfilled"
       /\ ShownAfter(results[i].value, "shengyu:") = TxtFetchFailed
       /\ ShownAfter(results[i].value, "jinri yiyong:") = ""

-----------------------------------------------------------------------------
(* The Cookie header                                                       *)

(* C20.  No check-in request carries an empty Cookie header: a flow whose  *)
(* check-in request is in flight holds a cookie that is not empty, so a    *)
(* login whose Set-Cookie values merge to the empty string has failed      *)
(* without a check-in.                                                     *)
C20_NoEmptyCookieHeader ==
  \A i \in DOMAIN pc : pc[i] = "CheckIn" => cookie[i] # <<>>

-----------------------------------------------------------------------------
(* Termination                                                             *)

\* The place of a step on the path of an account.
Rank(step) ==
  IF step = "Start" THEN 0
  ELSE IF step = "Login" THEN 1
  ELSE IF step = "CheckIn" THEN 2
  ELSE IF step = "Traffic" THEN 3
  ELSE 4

\* An account only moves forward on its path, and not at all once it is
\* done or has failed.
MovesForward ==
  \A i \in DOMAIN pc :
    /\ Rank(pc'[i]) >= Rank(pc[i])
    /\ pc[i] \in {"Done", "Failed"} => pc'[i] = pc[i]
    /\ Len(sent'[i]) >= Len(sent[i])

(* C21.  With every request answered or rejected in the end, every run     *)
(* ends.  An account goes along Start, Login, CheckIn, (Traffic) to Done   *)
(* or Failed and never back; nothing is written under "result" before     *)
(* every account is there, and a run that had accounts ends with all of    *)
(* them done or failed and its summary built, and written under "result"   *)
(* when GITHUB_OUTPUT is set.                                              *)
C21_Terminates ==
  /\ <>Exited
  /\ [][MovesForward]_vars
  /\ []((output # <<>> /\ accounts # <<>>) => AllFinished)
  /\ []((Exited /\ accounts # <<>>) =>
          /\ AllFinished
          /\ summaryLines # <<>>
          /\ ghOutput = "set" => output = <<SummaryValue>>)

\* A run of the script "traffic" has ended with one account that went the
\* whole path and one that failed on the way.
C21_Witness ==
  /\ variant = "traffic" /\ Exited /\ Len(pc) = 2
  /\ pc[1] = "Done" /\ sent[1] = <<"login", "checkin", "user">>
  /\ pc[2] = "Failed" /\ sent[2] = <<"login", "checkin">>

====
